---------------------------- MODULE Spec2Model ----------------------------
(***************************************************************************)
(* Model of extract_to_csv.py: a one-shot converter that loads a JSON      *)
(* export, projects its three arrays (sessions, speakers, sessionSpeakers) *)
(* into flat records and writes each to a CSV file.                        *)
(*                                                                         *)
(* Text is a sequence of atoms.  An atom is either one of the characters   *)
(* the csv dialect treats specially (comma, double quote, CR, LF), the     *)
(* list delimiter "|", or a run of ordinary characters ("a", "Talk",       *)
(* "id").  The bytes of a text are the concatenation of its atoms.         *)
(*                                                                         *)
(* A JSON value (and a Python value held by a flat record) is a record     *)
(* [t, s, l]: t = "null" (JSON null / Python None), t = "str" with text s, *)
(* or t = "list" with the list of texts l.  A JSON object / Python dict is *)
(* a function from the set of its keys to values.                          *)
(***************************************************************************)
EXTENDS Naturals, Sequences, FiniteSets, TLC

(***************************************************************************)
(* Bounds of the model.                                                    *)
(***************************************************************************)
\* total number of records in the three arrays of a document (driver runs)
MaxRecords == 3
\* number of atoms in an optional scalar field's text (field-level runs)
MaxTextLen == 2
\* number of items in a list-valued field (field-level runs)
MaxItems == 2
\* number of atoms in an item of a list-valued field (field-level runs)
MaxItemLen == 1
\* number of records handed to write_csv (writer-level runs)
MaxRows == 2

(***************************************************************************)
(* Values.                                                                 *)
(***************************************************************************)
JNull == [t |-> "null", s |-> <<>>, l |-> <<>>]
JStr(text) == [t |-> "str", s |-> text, l |-> <<>>]
JList(items) == [t |-> "list", s |-> <<>>, l |-> items]

RECURSIVE SeqsUpTo(_, _)
\* all sequences over S of length at most n
SeqsUpTo(S, n) ==
    IF n = 0 THEN {<<>>}
    ELSE LET shorter == SeqsUpTo(S, n - 1)
         IN  shorter \cup {Append(q, e) : q \in {r \in shorter : Len(r) = n - 1}, e \in S}

(***************************************************************************)
(* Python built-ins used by the extractors.                                *)
(***************************************************************************)
\* d.get(k, default): the default only when the key is absent; a key that
\* is present with value None yields None
Get(d, k, default) == IF k \in DOMAIN d THEN d[k] ELSE default

\* d.get(k): None when the key is absent
GetNone(d, k) == Get(d, k, JNull)

\* truth value of a Python object: None, '' and [] are false
Truthy(v) ==
    CASE v.t = "null" -> FALSE
      [] v.t = "str"  -> v.s # <<>>
      [] v.t = "list" -> v.l # <<>>

RECURSIVE JoinWithTrailing(_, _)
\* a plausible slip: the separator appended after every item
JoinWithTrailing(sep, items) ==
    IF items = <<>> THEN <<>>
    ELSE items[1] \o <<sep>> \o JoinWithTrailing(sep, Tail(items))

RECURSIVE JoinWith(_, _)
\* sep.join(items) for a list of texts
JoinWith(sep, items) ==
    IF items = <<>> THEN <<>>
    ELSE IF Len(items) = 1 THEN items[1]
    ELSE items[1] \o <<sep>> \o JoinWith(sep, Tail(items))

\* '|'.join(d.get(k, [])) if d.get(k) else ''
JoinField(d, k) ==
    IF Truthy(GetNone(d, k))
    THEN JStr(JoinWith("|", Get(d, k, JList(<<>>)).l))
    ELSE JStr(<<>>)

(***************************************************************************)
(* The three extractors: the dict literal built for one input record.      *)
(* The entries are evaluated in the order written, so the first required   *)
(* key that is absent (in that order) is the one the KeyError reports.     *)
(***************************************************************************)
session_fields ==
    <<"id", "title", "description", "startTime", "endTime", "location",
      "track", "level", "tags", "sourceUrl", "lastUpdated", "createdAt">>

speaker_fields ==
    <<"id", "name", "bio", "company", "role", "imageUrl", "linkedinUrl",
      "twitterUrl", "websiteUrl", "profileSummary", "companyProfile",
      "expertise", "achievements", "lastProfileSync", "createdAt">>

relationship_fields == <<"sessionId", "speakerId">>

\* keys read with d[k] (subscript), in evaluation order
SessionRequired == <<"id", "title", "startTime", "endTime", "createdAt">>
SpeakerRequired == <<"id", "name", "createdAt">>
RelRequired == <<"sessionId", "speakerId">>

\* keys read through '|'.join(...)
SessionLists == {"tags"}
SpeakerLists == {"expertise", "achievements"}

Range(q) == {q[i] : i \in 1..Len(q)}

\* the first key of required (in order) that record lacks, or "" if none
FirstMissing(record, required) ==
    IF \A i \in 1..Len(required) : required[i] \in DOMAIN record THEN ""
    ELSE required[CHOOSE i \in 1..Len(required) :
                      /\ required[i] \notin DOMAIN record
                      /\ \A j \in 1..(i - 1) : required[j] \in DOMAIN record]

\* the dict appended for one session (all required keys present)
SessionRow(session) ==
    [k \in Range(session_fields) |->
        IF k \in Range(SessionRequired) THEN session[k]
        ELSE IF k \in SessionLists THEN JoinField(session, k)
        ELSE Get(session, k, JStr(<<>>))]

\* the dict appended for one speaker (all required keys present)
SpeakerRow(speaker) ==
    [k \in Range(speaker_fields) |->
        IF k \in Range(SpeakerRequired) THEN speaker[k]
        ELSE IF k \in SpeakerLists THEN JoinField(speaker, k)
        ELSE Get(speaker, k, JStr(<<>>))]

\* the dict appended for one relationship (both keys present)
RelRow(rel) == [k \in Range(relationship_fields) |-> rel[k]]

Categories == <<"sessions", "speakers", "sessionSpeakers">>

RequiredOf(cat) ==
    CASE cat = "sessions" -> SessionRequired
      [] cat = "speakers" -> SpeakerRequired
      [] cat = "sessionSpeakers" -> RelRequired

FlatRow(cat, record) ==
    CASE cat = "sessions" -> SessionRow(record)
      [] cat = "speakers" -> SpeakerRow(record)
      [] cat = "sessionSpeakers" -> RelRow(record)

\* exceptions: the Python exception type and, for a KeyError, the key it
\* carries; at is the position of a record the message names (0: none).
NoError == [type |-> "", key |-> "", at |-> 0]
KeyError(k) == [type |-> "KeyError", key |-> k, at |-> 0]
OtherError(type) == [type |-> type, key |-> "", at |-> 0]

\* position of the first record of array lacking a required key (0: none)
FirstBad(cat, array) ==
    IF \A i \in 1..Len(array) : FirstMissing(array[i], RequiredOf(cat)) = "" THEN 0
    ELSE CHOOSE i \in 1..Len(array) :
            /\ FirstMissing(array[i], RequiredOf(cat)) # ""
            /\ \A j \in 1..(i - 1) : FirstMissing(array[j], RequiredOf(cat)) = ""

\* the loop of an extractor over its array: the list of flat records, or
\* the KeyError of the first record that lacks a required key
Extract(cat, array) ==
    IF FirstBad(cat, array) = 0
    THEN [err |-> NoError, rows |-> [i \in 1..Len(array) |-> FlatRow(cat, array[i])]]
    ELSE [err |-> KeyError(FirstMissing(array[FirstBad(cat, array)], RequiredOf(cat))),
          rows |-> <<>>]


(***************************************************************************)
(* csv.DictWriter with the default dialect (excel): delimiter ',',         *)
(* quotechar '"', doublequote, QUOTE_MINIMAL, lineterminator '\r\n',       *)
(* restval '' and extrasaction 'raise'.                                    *)
(***************************************************************************)
\* the text the writer emits for a value: None is written as ''
CellText(v) == IF v.t = "null" THEN <<>> ELSE v.s

\* QUOTE_MINIMAL: a field is quoted when it holds the delimiter, the quote
\* character or a character of the line terminator
NeedsQuote(text) == \E i \in 1..Len(text) : text[i] \in {",", "\"", "\r", "\n"}

RECURSIVE DoubleQuotes(_)
\* doublequote: every quote character inside a quoted field is written twice
DoubleQuotes(text) ==
    IF text = <<>> THEN <<>>
    ELSE (IF text[1] = "\"" THEN <<"\"", "\"">> ELSE <<text[1]>>)
         \o DoubleQuotes(Tail(text))

\* a plausible slip: fields joined by hand, with no quoting
CsvFieldUnquoted(text) == text

CsvField(text) ==
    IF NeedsQuote(text) THEN <<"\"">> \o DoubleQuotes(text) \o <<"\"">> ELSE text

\* writer.writerow(cells): the line written, without its terminator; a row
\* whose only field is empty is written as ""
CsvLine(cells) ==
    IF Len(cells) = 1 /\ cells[1] = <<>> THEN <<"\"", "\"">>
    ELSE JoinWith(",", [i \in 1..Len(cells) |-> CsvField(cells[i])])

\* DictWriter._dict_to_list: a key of fieldnames the dict lacks is filled
\* with restval ('')
DictToList(rowdict, fieldnames) ==
    [i \in 1..Len(fieldnames) |-> CellText(Get(rowdict, fieldnames[i], JStr(<<>>)))]

\* extrasaction='raise': keys of the dict that are not in fieldnames
WrongFields(rowdict, fieldnames) == DOMAIN rowdict \ Range(fieldnames)

\* DictWriter.writeheader(): the field names themselves as a row
HeaderLine(fieldnames) == CsvLine([i \in 1..Len(fieldnames) |-> <<fieldnames[i]>>])

\* the line written for one dict
RowLine(rowdict, fieldnames) == CsvLine(DictToList(rowdict, fieldnames))

\* position of the first dict with a key outside fieldnames (0: none)
FirstWrong(rows, fieldnames) ==
    IF \A i \in 1..Len(rows) : WrongFields(rows[i], fieldnames) = {} THEN 0
    ELSE CHOOSE i \in 1..Len(rows) :
            /\ WrongFields(rows[i], fieldnames) # {}
            /\ \A j \in 1..(i - 1) : WrongFields(rows[j], fieldnames) = {}

\* a plausible slip: writerows over data[1:]
RowLinesSkipFirst(rows, fieldnames, n) ==
    [i \in 1..(n - 1) |-> RowLine(rows[i + 1], fieldnames)]

\* the lines writerows emits for the first n dicts
RowLines(rows, fieldnames, n) == [i \in 1..n |-> RowLine(rows[i], fieldnames)]

(***************************************************************************)
(* Files on disk.  A file is absent or holds a sequence of lines, each     *)
(* followed by the line terminator in the file's bytes.                    *)
(***************************************************************************)
Absent == [exists |-> FALSE, lines |-> <<>>]
Holding(lines) == [exists |-> TRUE, lines |-> lines]
\* open(filename, 'w'): the file is created or truncated
Truncated == Holding(<<>>)
\* write through the handle: lines are appended to what the handle has written
Appended(file, lines) == Holding(file.lines \o lines)

FileOf(cat) ==
    CASE cat = "sessions" -> "sessions.csv"
      [] cat = "speakers" -> "speakers.csv"
      [] cat = "sessionSpeakers" -> "session_speakers.csv"

FieldsOf(cat) ==
    CASE cat = "sessions" -> session_fields
      [] cat = "speakers" -> speaker_fields
      [] cat = "sessionSpeakers" -> relationship_fields

OutputFiles == {FileOf(Categories[i]) : i \in 1..Len(Categories)}
json_file == "latest-export.json"


(***************************************************************************)
(* The input document: metadata (the set of metadata keys present) and the *)
(* three arrays of data.                                                   *)
(***************************************************************************)
\* the metadata keys main() reads, in the order it reads them
MetaReads ==
    <<"metadata", "metadata.exportedAt", "metadata.counts", "metadata.counts.sessions",
      "metadata.counts.speakers", "metadata.counts.sessionSpeakers">>

Document(meta, sess, spk, rels) ==
    [meta |-> meta,
     data |-> [sessions |-> sess, speakers |-> spk, sessionSpeakers |-> rels]]

\* placeholder for "no document" (input file missing or not JSON; nothing loaded yet)
NoDoc == Document({}, <<>>, <<>>, <<>>)

\* the first metadata key, in reading order, that the document lacks ("" if none)
MissingMeta(d) ==
    IF \A i \in 1..Len(MetaReads) : MetaReads[i] \in d.meta THEN ""
    ELSE MetaReads[CHOOSE i \in 1..Len(MetaReads) :
                       /\ MetaReads[i] \notin d.meta
                       /\ \A j \in 1..(i - 1) : MetaReads[j] \in d.meta]

VARIABLES
    inputFile,      \* the input path: "missing", "malformed" (not JSON) or "ok"
    doc,            \* the document the input file holds (when "ok")
    dirExists,      \* whether output_dir exists
    files,          \* the three output files on disk
    handles,        \* the file handles currently open
    status,         \* "running", "done" (exit 0) or "failed" (unhandled exception)
    pc,             \* the step main() is at (the step that raised, when failed)
    cat,            \* the category of the extractor/writer pair in progress
    data,           \* main's local: the loaded document
    extracted,      \* main's locals sessions, speakers, relationships
    err,            \* the exception that ended the run
    touched,        \* history: output files opened for writing in this run
    startFiles,     \* history: the output files as they were when this run began
    ioFailed,       \* history: a write failed (OSError) in this run
    prior           \* history: "none", or how the previous run went: "clean", "io"

vars == <<inputFile, doc, dirExists, files, handles, status, pc, cat, data,
          extracted, err, touched, startFiles, ioFailed, prior>>

world == <<inputFile, doc>>
history == <<startFiles, prior>>

NoRows == [c \in Range(Categories) |-> <<>>]

\* a plausible slip: the makedirs call left out
MakeDirsOmitted(exists) == exists

\* os.makedirs(output_dir, exist_ok=True)
MakeDirsResult(exists) == TRUE

\* a plausible slip: the file opened with mode 'a'
OpenForAppend(file) == IF file.exists THEN file ELSE Holding(<<>>)

\* open(filename, 'w'): create or truncate
OpenForWrite(file) == Truncated

\* a plausible slip: open() without with, and no close
ExitWithoutClose(open, name) == open

\* leaving a with-block, normally or by an exception, closes its file
ExitWith(open, name) == open \ {name}

\* a plausible slip: the speakers pair left out of main
NextCategorySkipping(c) ==
    CASE c = "sessions" -> "sessionSpeakers"
      [] c = "speakers" -> "sessionSpeakers"
      [] c = "sessionSpeakers" -> ""

\* the pair that follows the pair of category c in main ("" after the last)
NextCategory(c) ==
    CASE c = "sessions" -> "speakers"
      [] c = "speakers" -> "sessionSpeakers"
      [] c = "sessionSpeakers" -> ""

Running(step) == status = "running" /\ pc = step

\* an unhandled exception ends the process; pc and cat stay where it was raised
Raise(e) == status' = "failed" /\ err' = e

\* line 88
MakeDirs ==
    /\ Running("makedirs")
    /\ dirExists' = MakeDirsResult(dirExists)
    /\ pc' = "load_open"
    /\ UNCHANGED <<world, files, handles, status, cat, data, extracted, err,
                   touched, ioFailed, history>>

\* line 14: open(filepath, 'r')
LoadOpen ==
    /\ Running("load_open")
    /\ inputFile # "missing"
    /\ handles' = handles \cup {json_file}
    /\ pc' = "load_parse"
    /\ UNCHANGED <<world, dirExists, files, status, cat, data, extracted, err,
                   touched, ioFailed, history>>

LoadOpenFail ==
    /\ Running("load_open")
    /\ inputFile = "missing"
    /\ Raise(OtherError("FileNotFoundError"))
    /\ UNCHANGED <<world, dirExists, files, handles, pc, cat, data, extracted,
                   touched, ioFailed, history>>

\* line 15: json.load(f), then the with-block is left
LoadParse ==
    /\ Running("load_parse")
    /\ inputFile = "ok"
    /\ data' = doc
    /\ handles' = ExitWith(handles, json_file)
    /\ pc' = "metadata"
    /\ UNCHANGED <<world, dirExists, files, status, cat, extracted, err,
                   touched, ioFailed, history>>

LoadParseFail ==
    /\ Running("load_parse")
    /\ inputFile = "malformed"
    /\ handles' = ExitWith(handles, json_file)
    /\ Raise(OtherError("JSONDecodeError"))
    /\ UNCHANGED <<world, dirExists, files, pc, cat, data, extracted,
                   touched, ioFailed, history>>

\* lines 95-100
PrintMetadata ==
    /\ Running("metadata")
    /\ MissingMeta(data) = ""
    /\ pc' = "extract"
    /\ cat' = Categories[1]
    /\ UNCHANGED <<world, dirExists, files, handles, status, data, extracted, err,
                   touched, ioFailed, history>>

PrintMetadataFail ==
    /\ Running("metadata")
    /\ MissingMeta(data) # ""
    /\ Raise(KeyError(MissingMeta(data)))
    /\ UNCHANGED <<world, dirExists, files, handles, pc, cat, data, extracted,
                   touched, ioFailed, history>>

\* lines 104, 111, 119: the extractor of the current category returns its list
ExtractRecords ==
    /\ Running("extract")
    /\ Extract(cat, data.data[cat]).err = NoError
    /\ extracted' = [extracted EXCEPT ![cat] = Extract(cat, data.data[cat]).rows]
    /\ pc' = "write_open"
    /\ UNCHANGED <<world, dirExists, files, handles, status, cat, data, err,
                   touched, ioFailed, history>>

\* a record lacks a required key: the subscript raises KeyError
ExtractRecordsFail ==
    /\ Running("extract")
    /\ Extract(cat, data.data[cat]).err # NoError
    /\ Raise(Extract(cat, data.data[cat]).err)
    /\ UNCHANGED <<world, dirExists, files, handles, pc, cat, data, extracted,
                   touched, ioFailed, history>>

\* line 19: open(filename, 'w')
WriteOpen ==
    /\ Running("write_open")
    /\ files' = [files EXCEPT ![FileOf(cat)] = OpenForWrite(@)]
    /\ handles' = handles \cup {FileOf(cat)}
    /\ touched' = touched \cup {FileOf(cat)}
    /\ pc' = "write_header"
    /\ UNCHANGED <<world, dirExists, status, cat, data, extracted, err,
                   ioFailed, history>>

\* line 21
WriteHeader ==
    /\ Running("write_header")
    /\ files' = [files EXCEPT ![FileOf(cat)] = Appended(@, <<HeaderLine(FieldsOf(cat))>>)]
    /\ pc' = "write_rows"
    /\ UNCHANGED <<world, dirExists, handles, status, cat, data, extracted, err,
                   touched, ioFailed, history>>

\* line 21 fails (e.g. the disk is full): the with-block closes the file
WriteHeaderFail ==
    /\ Running("write_header")
    /\ handles' = ExitWith(handles, FileOf(cat))
    /\ ioFailed' = TRUE
    /\ Raise(OtherError("OSError"))
    /\ UNCHANGED <<world, dirExists, files, pc, cat, data, extracted,
                   touched, history>>

\* line 22: every dict has only keys of fieldnames
WriteRows ==
    /\ Running("write_rows")
    /\ FirstWrong(extracted[cat], FieldsOf(cat)) = 0
    /\ files' = [files EXCEPT ![FileOf(cat)] =
                    Appended(@, RowLines(extracted[cat], FieldsOf(cat), Len(extracted[cat])))]
    /\ pc' = "write_close"
    /\ UNCHANGED <<world, dirExists, handles, status, cat, data, extracted, err,
                   touched, ioFailed, history>>

\* line 22: a dict has a key outside fieldnames: the rows before it are
\* written, then ValueError; the with-block closes the file
WriteRowsExtra ==
    /\ Running("write_rows")
    /\ FirstWrong(extracted[cat], FieldsOf(cat)) # 0
    /\ files' = [files EXCEPT ![FileOf(cat)] =
                    Appended(@, RowLines(extracted[cat], FieldsOf(cat),
                                         FirstWrong(extracted[cat], FieldsOf(cat)) - 1))]
    /\ handles' = ExitWith(handles, FileOf(cat))
    /\ Raise(OtherError("ValueError"))
    /\ UNCHANGED <<world, dirExists, pc, cat, data, extracted,
                   touched, ioFailed, history>>

\* line 22 fails after n rows (e.g. the disk is full): the with-block closes the file
WriteRowsFail ==
    /\ Running("write_rows")
    /\ FirstWrong(extracted[cat], FieldsOf(cat)) = 0
    /\ \E n \in 0..(Len(extracted[cat]) - 1) :
          files' = [files EXCEPT ![FileOf(cat)] =
                       Appended(@, RowLines(extracted[cat], FieldsOf(cat), n))]
    /\ handles' = ExitWith(handles, FileOf(cat))
    /\ ioFailed' = TRUE
    /\ Raise(OtherError("OSError"))
    /\ UNCHANGED <<world, dirExists, pc, cat, data, extracted,
                   touched, history>>

\* lines 22-23: the with-block is left, write_csv returns to main, which goes
\* on to the next pair or, after the last, to its closing messages
WriteClose ==
    /\ Running("write_close")
    /\ handles' = ExitWith(handles, FileOf(cat))
    /\ IF NextCategory(cat) = ""
       THEN status' = "done" /\ UNCHANGED <<pc, cat>>
       ELSE pc' = "extract" /\ cat' = NextCategory(cat) /\ UNCHANGED status
    /\ UNCHANGED <<world, dirExists, files, data, extracted, err,
                   touched, ioFailed, history>>

\* the tool is started again on the same input; nothing but the disk is
\* carried over from the run before
Rerun ==
    /\ status \in {"done", "failed"}
    /\ status' = "running"
    /\ pc' = "makedirs"
    /\ cat' = ""
    /\ data' = NoDoc
    /\ extracted' = NoRows
    /\ err' = NoError
    /\ handles' = {}
    /\ touched' = {}
    /\ startFiles' = files
    /\ prior' = IF ioFailed THEN "io" ELSE "clean"
    /\ ioFailed' = FALSE
    /\ UNCHANGED <<world, dirExists, files>>


(***************************************************************************)
(* Inputs of the driver runs: documents built from a few sample records,   *)
(* some lacking a required key, with at most MaxRecords records in all.    *)
(***************************************************************************)
Without(record, k) == [x \in DOMAIN record \ {k} |-> record[x]]

T(atom) == JStr(<<atom>>)

\* a session with every key
S1 ==
    [id |-> T("s1"), title |-> T("Talk"), description |-> JStr(<<"a", ",", "b">>),
     startTime |-> T("T0"), endTime |-> T("T1"), location |-> T("Hall"),
     track |-> T("AI"), level |-> T("intro"), tags |-> JList(<<<<"ai">>, <<"cloud">>>>),
     sourceUrl |-> T("u1"), lastUpdated |-> T("L0"), createdAt |-> T("C0")]

\* a session with the required keys, a null description and no tags
S2 ==
    [id |-> T("s2"), title |-> JStr(<<"Say ", "\"", "hi", "\"">>), description |-> JNull,
     startTime |-> T("T2"), endTime |-> T("T3"), tags |-> JList(<<>>),
     createdAt |-> T("C1")]

SessionPool == {S1, S2, Without(S1, "id")}

\* a speaker with every key
P1 ==
    [id |-> T("p1"), name |-> T("Ann"), bio |-> JStr(<<"x", "\n", "y">>),
     company |-> T("Acme"), role |-> T("CTO"), imageUrl |-> T("i1"),
     linkedinUrl |-> T("l1"), twitterUrl |-> T("t1"), websiteUrl |-> T("w1"),
     profileSummary |-> T("ps"), companyProfile |-> T("cp"),
     expertise |-> JList(<<<<"ml">>>>), achievements |-> JList(<<<<"a1">>, <<"a2">>>>),
     lastProfileSync |-> T("L1"), createdAt |-> T("C2")]

\* a speaker with the required keys and a null bio
P2 == [id |-> T("p2"), name |-> T("Bob"), bio |-> JNull, createdAt |-> T("C3")]

SpeakerPool == {P1, P2, Without(P2, "name")}

R1 == [sessionId |-> T("s1"), speakerId |-> T("p1")]
R2 == [sessionId |-> T("s1"), speakerId |-> T("p2")]

RelPool == {R1, R2, Without(R1, "speakerId")}

PoolOf(c) ==
    CASE c = "sessions" -> SessionPool
      [] c = "speakers" -> SpeakerPool
      [] c = "sessionSpeakers" -> RelPool

ValidPoolOf(c) == {r \in PoolOf(c) : FirstMissing(r, RequiredOf(c)) = ""}

SeqsOfLen(S, n) == [1..n -> S]

FullMeta == Range(MetaReads)

\* documents with complete metadata and at most n records in all
DataDocs(n) ==
    UNION {{Document(FullMeta, s, p, r) :
               s \in SeqsOfLen(SessionPool, sz[1]),
               p \in SeqsOfLen(SpeakerPool, sz[2]),
               r \in SeqsOfLen(RelPool, sz[3])} :
           sz \in {x \in (0..n) \X (0..n) \X (0..n) : x[1] + x[2] + x[3] <= n}}

\* documents lacking one metadata key, all of whose records are valid
BrokenMetaDocs ==
    {Document(FullMeta \ {k}, s, p, r) :
        k \in FullMeta,
        s \in SeqsOfLen(ValidPoolOf("sessions"), 1),
        p \in SeqsOfLen(ValidPoolOf("speakers"), 1),
        r \in {<<>>}}

Docs == DataDocs(MaxRecords) \cup BrokenMetaDocs

\* what an earlier, unrelated run may have left in an output file
Stale == Holding(<<<<"stale">>>>)

Fresh ==
    /\ status = "running"
    /\ pc = "makedirs"
    /\ cat = ""
    /\ data = NoDoc
    /\ extracted = NoRows
    /\ err = NoError
    /\ handles = {}
    /\ touched = {}
    /\ ioFailed = FALSE
    /\ prior = "none"
    /\ startFiles = files

Init ==
    /\ \/ inputFile \in {"missing", "malformed"} /\ doc = NoDoc
       \/ inputFile = "ok" /\ doc \in Docs
    /\ \/ dirExists \in BOOLEAN /\ files = [f \in OutputFiles |-> Absent]
       \/ dirExists = TRUE /\ files = [f \in OutputFiles |-> Stale]
    /\ Fresh

Next ==
    \/ MakeDirs
    \/ LoadOpen
    \/ LoadOpenFail
    \/ LoadParse
    \/ LoadParseFail
    \/ PrintMetadata
    \/ PrintMetadataFail
    \/ ExtractRecords
    \/ ExtractRecordsFail
    \/ WriteOpen
    \/ WriteHeader
    \/ WriteHeaderFail
    \/ WriteRows
    \/ WriteRowsFail
    \/ WriteClose
    \/ Rerun

Spec == Init /\ [][Next]_vars


(***************************************************************************)
(* Field-level runs: a document holding one session or one speaker, in     *)
(* which one optional field ranges over absent, null and every bounded     *)
(* value, the other optional fields being all absent or all filled; the    *)
(* run meets no I/O failure.                                               *)
(***************************************************************************)
TextAtoms == {"a", ",", "\"", "\n"}
ItemAtoms == {"a", "|", ","}

ScalarValues == {JNull} \cup {JStr(t) : t \in SeqsUpTo(TextAtoms, MaxTextLen)}
ListValues ==
    {JNull} \cup {JList(l) : l \in SeqsUpTo(SeqsUpTo(ItemAtoms, MaxItemLen), MaxItems)}

ListsOf(c) ==
    CASE c = "sessions" -> SessionLists
      [] c = "speakers" -> SpeakerLists
      [] c = "sessionSpeakers" -> {}

\* the keys read with d.get(k, '')
ScalarsOf(c) == (Range(FieldsOf(c)) \ Range(RequiredOf(c))) \ ListsOf(c)

\* the session of the end-to-end scenario, without its tags
SessionBase ==
    [id |-> T("s1"), title |-> T("Talk"), startTime |-> T("T0"),
     endTime |-> T("T1"), createdAt |-> T("C0")]

SpeakerBase == [id |-> T("p1"), name |-> T("Ann"), createdAt |-> T("C2")]

BaseOf(c) == IF c = "sessions" THEN SessionBase ELSE SpeakerBase

\* the value the other optional fields take when they are filled
Filler(c, k) == IF k \in ListsOf(c) THEN JList(<<<<"x">>, <<"y">>>>) ELSE T("z")

\* the record of category c whose field f is absent (present = FALSE) or
\* holds v, the other optional fields being filled or absent
FieldRecord(c, f, present, v, filled) ==
    [k \in (Range(RequiredOf(c))
            \cup (IF filled THEN Range(FieldsOf(c)) \ {f} ELSE {})
            \cup (IF present THEN {f} ELSE {})) |->
        IF k = f THEN v
        ELSE IF k \in Range(RequiredOf(c)) THEN BaseOf(c)[k]
        ELSE Filler(c, k)]

FieldRecords(c) ==
    {FieldRecord(c, f, TRUE, v, filled) :
        f \in ScalarsOf(c), v \in ScalarValues, filled \in BOOLEAN}
    \cup {FieldRecord(c, f, TRUE, v, filled) :
        f \in ListsOf(c), v \in ListValues, filled \in BOOLEAN}
    \cup {FieldRecord(c, f, FALSE, JNull, filled) :
        f \in ScalarsOf(c) \cup ListsOf(c), filled \in BOOLEAN}

\* the session of the end-to-end scenario
ScenarioSession ==
    FieldRecord("sessions", "tags", TRUE, JList(<<<<"ai">>, <<"cloud">>>>), FALSE)

FieldDocs ==
    {Document(FullMeta, <<r>>, <<>>, <<>>) : r \in FieldRecords("sessions") \cup {ScenarioSession}}
    \cup {Document(FullMeta, <<>>, <<r>>, <<>>) : r \in FieldRecords("speakers")}

InitFields ==
    /\ inputFile = "ok"
    /\ doc \in FieldDocs
    /\ dirExists = FALSE
    /\ files = [f \in OutputFiles |-> Absent]
    /\ Fresh

NextFields ==
    \/ MakeDirs
    \/ LoadOpen
    \/ LoadParse
    \/ PrintMetadata
    \/ ExtractRecords
    \/ WriteOpen
    \/ WriteHeader
    \/ WriteRows
    \/ WriteClose

SpecFields == InitFields /\ [][NextFields]_vars

(***************************************************************************)
(* Writer-level runs: write_csv called with relationship_fields and any    *)
(* list of at most MaxRows dicts, whose keys need not be the field names.  *)
(***************************************************************************)
WriterKeys == Range(relationship_fields) \cup {"extra"}
WriterValues == {JNull, T("a")}

WriterDicts == UNION {[K -> WriterValues] : K \in SUBSET WriterKeys}

WriterInputs == UNION {SeqsOfLen(WriterDicts, n) : n \in 0..MaxRows}

InitWriter ==
    /\ inputFile = "ok"
    /\ doc = Document(FullMeta, <<>>, <<>>, <<>>)
    /\ dirExists = TRUE
    /\ files \in {[f \in OutputFiles |-> Absent], [f \in OutputFiles |-> Stale]}
    /\ status = "running"
    /\ pc = "write_open"
    /\ cat = "sessionSpeakers"
    /\ data = doc
    /\ \E rows \in WriterInputs : extracted = [NoRows EXCEPT !["sessionSpeakers"] = rows]
    /\ err = NoError
    /\ handles = {}
    /\ touched = {}
    /\ ioFailed = FALSE
    /\ prior = "none"
    /\ startFiles = files

NextWriter ==
    \/ WriteOpen
    \/ WriteHeader
    \/ WriteRows
    \/ WriteRowsExtra
    \/ WriteClose

SpecWriter == InitWriter /\ [][NextWriter]_vars


(***************************************************************************)
(* Properties of the driver runs (Spec).                                   *)
(***************************************************************************)
Index(c) == CHOOSE i \in 1..Len(Categories) : Categories[i] = c

\* the complete output of category c for the input document
ExpectedLines(c) ==
    <<HeaderLine(FieldsOf(c))>>
    \o [i \in 1..Len(doc.data[c]) |-> RowLine(FlatRow(c, doc.data[c][i]), FieldsOf(c))]

\* C1: after a complete run each output file holds its header and then
\* exactly one row per record of its input array, the i-th row being the row
\* of the i-th record: nothing is dropped, duplicated, merged or reordered.
C1_RowPerRecordInOrder ==
    status = "done" =>
        \A j \in 1..Len(Categories) :
            LET c == Categories[j]
                a == doc.data[c]
                f == files[FileOf(c)]
            IN  /\ f.exists
                /\ Len(f.lines) = Len(a) + 1
                /\ f.lines[1] = HeaderLine(FieldsOf(c))
                /\ \A i \in 1..Len(a) :
                      f.lines[i + 1] = RowLine(FlatRow(c, a[i]), FieldsOf(c))

\* a complete run over two sessions given in an order that is not sorted by
\* id, followed by a relationship
C1_Witness ==
    /\ status = "done"
    /\ doc.data["sessions"] = <<S2, S1>>
    /\ doc.data["sessionSpeakers"] = <<R2>>
    /\ Len(files["sessions.csv"].lines) = 3

\* C6: the pairs run in the order sessions, speakers, relationships, each
\* completing before the next extractor starts: whenever the pair of a
\* category is in progress or has aborted, the files of the categories
\* before it are complete, those of the categories after it are as the run
\* found them, and while the extractor runs (or when it has aborted) no file
\* is open and the category's own file has not been opened.
C6_PairsInOrder ==
    (status # "done" /\ cat # "") =>
        /\ \A j \in 1..Len(Categories) :
              LET e == Categories[j]
              IN  /\ j < Index(cat) =>
                        /\ FileOf(e) \in touched
                        /\ files[FileOf(e)] = Holding(ExpectedLines(e))
                  /\ j > Index(cat) =>
                        /\ FileOf(e) \notin touched
                        /\ files[FileOf(e)] = startFiles[FileOf(e)]
        /\ pc = "extract" =>
              /\ handles = {}
              /\ FileOf(cat) \notin touched
              /\ files[FileOf(cat)] = startFiles[FileOf(cat)]

\* the speakers extractor aborts after a non-empty sessions.csv was written
\* over stale output
C6_Witness ==
    /\ status = "failed"
    /\ pc = "extract"
    /\ cat = "speakers"
    /\ Len(doc.data["sessions"]) = 2
    /\ startFiles["speakers.csv"] = Stale
    /\ files["sessions.csv"] # startFiles["sessions.csv"]

\* C8: a run that follows a run on the same input (neither meeting an I/O
\* failure) leaves the three output files exactly as it found them; and
\* after a complete run every file holds what the document alone
\* determines, whatever it held before.
C8_Idempotent ==
    /\ (status \in {"done", "failed"} /\ prior = "clean" /\ ~ioFailed) => files = startFiles
    /\ status = "done" =>
          \A j \in 1..Len(Categories) :
              files[FileOf(Categories[j])] = Holding(ExpectedLines(Categories[j]))

\* a second complete run over a document with records
C8_Witness ==
    /\ status = "done"
    /\ prior = "clean"
    /\ Len(doc.data["sessions"]) > 0
    /\ Len(doc.data["speakers"]) > 0
    /\ files = startFiles

\* C9: at most one file is open at any time, and only inside the function
\* that opened it: the input file only while load_json_data parses it, an
\* output file only while write_csv writes it; no file is open at any other
\* step, nor once the run has ended, normally or by an exception.
C9_HandlesScoped ==
    /\ Cardinality(handles) <= 1
    /\ status \in {"done", "failed"} => handles = {}
    /\ status = "running" =>
          /\ pc \in {"makedirs", "load_open", "metadata", "extract", "write_open"}
                => handles = {}
          /\ pc = "load_parse" => handles = {json_file}
          /\ pc \in {"write_header", "write_rows", "write_close"}
                => handles = {FileOf(cat)}

\* a write of rows failed half-way: the file holds some rows and is closed
C9_Witness ==
    /\ status = "failed"
    /\ pc = "write_rows"
    /\ err.type = "OSError"
    /\ Len(files[FileOf(cat)].lines) = 2
    /\ handles = {}

\* C10: the output directory exists from the makedirs step on, and the
\* metadata keys have all been read before any extraction; a run that fails
\* in the loader or on a metadata key ends with the directory created and
\* with the three output files neither opened nor changed.
C10_FailBeforeExtraction ==
    /\ (status = "running" /\ pc = "makedirs") \/ dirExists
    /\ pc \in {"extract", "write_open", "write_header", "write_rows", "write_close"}
          => MissingMeta(data) = ""
    /\ (status = "failed" /\ pc \in {"load_open", "load_parse", "metadata"}) =>
          /\ dirExists
          /\ touched = {}
          /\ files = startFiles

\* a first run on a document with valid records but no metadata.counts.speakers,
\* where neither the directory nor any output file existed
C10_Witness ==
    /\ status = "failed"
    /\ pc = "metadata"
    /\ prior = "none"
    /\ err = KeyError("metadata.counts.speakers")
    /\ Len(doc.data["sessions"]) = 1
    /\ files = [f \in OutputFiles |-> Absent]


(***************************************************************************)
(* The reader of the round trip: a generated line is split on commas       *)
(* respecting quoting, and a list field is split on "|".                   *)
(***************************************************************************)
RECURSIVE ParseFrom(_, _, _, _, _)
\* the cells of line from position i on; quoted: inside a quoted field;
\* cell: the field read so far; cells: the fields already complete
ParseFrom(line, i, quoted, cell, cells) ==
    IF i > Len(line) THEN Append(cells, cell)
    ELSE IF quoted
    THEN IF line[i] # "\"" THEN ParseFrom(line, i + 1, TRUE, Append(cell, line[i]), cells)
         ELSE IF i < Len(line) /\ line[i + 1] = "\""
         THEN ParseFrom(line, i + 2, TRUE, Append(cell, "\""), cells)
         ELSE ParseFrom(line, i + 1, FALSE, cell, cells)
    ELSE IF line[i] = "," THEN ParseFrom(line, i + 1, FALSE, <<>>, Append(cells, cell))
    ELSE IF line[i] = "\"" /\ cell = <<>> THEN ParseFrom(line, i + 1, TRUE, cell, cells)
    ELSE ParseFrom(line, i + 1, FALSE, Append(cell, line[i]), cells)

ParseCsvLine(line) == ParseFrom(line, 1, FALSE, <<>>, <<>>)

RECURSIVE SplitFrom(_, _, _, _, _)
SplitFrom(text, sep, i, part, parts) ==
    IF i > Len(text) THEN Append(parts, part)
    ELSE IF text[i] = sep THEN SplitFrom(text, sep, i + 1, <<>>, Append(parts, part))
    ELSE SplitFrom(text, sep, i + 1, Append(part, text[i]), parts)

\* text.split(sep): the empty text splits to one empty part
SplitOn(text, sep) == SplitFrom(text, sep, 1, <<>>, <<>>)

(***************************************************************************)
(* Properties of the extractors (Spec, SpecFields).                        *)
(***************************************************************************)
\* C2: when a record lacks a required key, the run fails with a SchemaError
\* naming the missing key and the position of the record, and the output
\* file of that category is neither opened nor written.
C2_SchemaErrorNamesRecord ==
    (status = "failed" /\ pc = "extract") =>
        LET a == data.data[cat]
        IN  /\ err.type = "SchemaError"
            /\ err.key = FirstMissing(a[FirstBad(cat, a)], RequiredOf(cat))
            /\ err.at = FirstBad(cat, a)
            /\ FileOf(cat) \notin touched
            /\ files[FileOf(cat)] = startFiles[FileOf(cat)]

\* what the code does there: a KeyError carrying the key and nothing that
\* locates the record; the file of the category is untouched
C2_AsCoded ==
    (status = "failed" /\ pc = "extract") =>
        LET a == data.data[cat]
        IN  /\ err = KeyError(FirstMissing(a[FirstBad(cat, a)], RequiredOf(cat)))
            /\ err.at = 0
            /\ FileOf(cat) \notin touched
            /\ files[FileOf(cat)] = startFiles[FileOf(cat)]

RecordCategories == {"sessions", "speakers"}

\* position of field k in the field list of category c
ColumnOf(c, k) == CHOOSE i \in 1..Len(FieldsOf(c)) : FieldsOf(c)[i] = k

\* the file of category c has been written in full in this run
Written(c) ==
    /\ FileOf(c) \in touched
    /\ Len(files[FileOf(c)].lines) = Len(doc.data[c]) + 1

\* the cell of field k in the row written for the i-th record of category c
CellRead(c, i, k) == ParseCsvLine(files[FileOf(c)].lines[i + 1])[ColumnOf(c, k)]

NullOrAbsent(record, k) == k \notin DOMAIN record \/ record[k] = JNull

\* C4: for every optional scalar field, the flat record holds the empty
\* string when the field is absent or null and the value unchanged
\* otherwise, and the CSV column holds the same text.
C4_OptionalDefaultsToEmpty ==
    \A c \in RecordCategories : \A i \in 1..Len(extracted[c]) : \A k \in ScalarsOf(c) :
        LET src == doc.data[c][i]
            flat == extracted[c][i]
            want == IF NullOrAbsent(src, k) THEN JStr(<<>>) ELSE src[k]
        IN  /\ k \in DOMAIN flat
            /\ flat[k] = want
            /\ Written(c) =>
                  /\ Len(ParseCsvLine(files[FileOf(c)].lines[i + 1])) = Len(FieldsOf(c))
                  /\ CellRead(c, i, k) = want.s

\* what the code does there: a null field stays None in the flat record;
\* the CSV column is empty all the same, the writer emitting None as ''
C4_AsCoded ==
    \A c \in RecordCategories : \A i \in 1..Len(extracted[c]) : \A k \in ScalarsOf(c) :
        LET src == doc.data[c][i]
            flat == extracted[c][i]
        IN  /\ k \in DOMAIN flat
            /\ flat[k] = IF k \in DOMAIN src THEN src[k] ELSE JStr(<<>>)
            /\ Written(c) =>
                  /\ Len(ParseCsvLine(files[FileOf(c)].lines[i + 1])) = Len(FieldsOf(c))
                  /\ CellRead(c, i, k) = IF NullOrAbsent(src, k) THEN <<>> ELSE src[k].s

\* text is the items in order with exactly one "|" between consecutive items
JoinedIs(text, items) ==
    LET n == Len(items)
        start[i \in 1..n] == IF i = 1 THEN 0 ELSE start[i - 1] + Len(items[i - 1]) + 1
    IN  /\ n > 0
        /\ Len(text) = start[n] + Len(items[n])
        /\ \A i \in 1..n : \A j \in 1..Len(items[i]) : text[start[i] + j] = items[i][j]
        /\ \A i \in 2..n : text[start[i]] = "|"

\* the row of the end-to-end scenario: s1,Talk,,T0,T1,,,,ai|cloud,,,C0
ScenarioRow ==
    <<"s1", ",", "Talk", ",", ",", "T0", ",", "T1", ",", ",", ",", ",",
      "ai", "|", "cloud", ",", ",", ",", "C0">>

\* C5: every list-valued field is extracted as its items in order with one
\* "|" between consecutive items when it is a non-empty list, and as the
\* empty string when it is absent, null or empty; the scenario session
\* yields the scenario row.
C5_ListsJoined ==
    /\ \A c \in RecordCategories : \A i \in 1..Len(extracted[c]) : \A k \in ListsOf(c) :
          LET v == GetNone(doc.data[c][i], k)
              flat == extracted[c][i]
          IN  /\ k \in DOMAIN flat
              /\ flat[k].t = "str"
              /\ IF v.t = "list" /\ v.l # <<>>
                 THEN JoinedIs(flat[k].s, v.l)
                 ELSE flat[k].s = <<>>
    /\ (doc.data["sessions"] = <<ScenarioSession>>
        /\ (pc = "write_close" \/ cat \notin {"", "sessions"})) =>
          /\ extracted["sessions"][1]["tags"] = JStr(<<"ai", "|", "cloud">>)
          /\ files["sessions.csv"].lines[2] = ScenarioRow
          /\ Len(files["sessions.csv"].lines) = 2

\* the scenario session has been written
C5_Witness ==
    /\ doc.data["sessions"] = <<ScenarioSession>>
    /\ pc = "write_close"
    /\ cat = "sessions"
    /\ files["sessions.csv"].lines[2] = ScenarioRow

\* the list a list-valued field stands for: absent or null is the empty list
OriginalList(record, k) ==
    IF k \in DOMAIN record /\ record[k].t = "list" THEN record[k].l ELSE <<>>

NoBar(items) == \A i \in 1..Len(items) : \A j \in 1..Len(items[i]) : items[i][j] # "|"

\* C7 as stated: whenever no item holds "|", the written row parses back to
\* one cell per field and the cell of a list field, split on "|", is the
\* original list, also when the field is absent or the list is empty.
C7_RoundTripAll ==
    \A c \in RecordCategories : \A k \in ListsOf(c) :
        Written(c) => \A i \in 1..Len(doc.data[c]) :
            LET items == OriginalList(doc.data[c][i], k)
            IN  NoBar(items) =>
                    /\ Len(ParseCsvLine(files[FileOf(c)].lines[i + 1])) = Len(FieldsOf(c))
                    /\ SplitOn(CellRead(c, i, k), "|") = items

\* C7 as amended: whenever no item holds "|", the written row parses back
\* to one cell per field and the cell of a list field, split on "|", is the
\* original list if that list is not empty
\* (items that are the empty string included); for an absent, null or empty
\* list the cell is empty and splits to the one-item list [""].
C7_RoundTripNonEmpty ==
    \A c \in RecordCategories : \A k \in ListsOf(c) :
        Written(c) => \A i \in 1..Len(doc.data[c]) :
            LET items == OriginalList(doc.data[c][i], k)
            IN  NoBar(items) =>
                    /\ Len(ParseCsvLine(files[FileOf(c)].lines[i + 1])) = Len(FieldsOf(c))
                    /\ IF items # <<>>
                       THEN SplitOn(CellRead(c, i, k), "|") = items
                       ELSE /\ CellRead(c, i, k) = <<>>
                            /\ SplitOn(CellRead(c, i, k), "|") = <<<<>>>>

\* a speaker whose achievements are an empty string and a comma has been written
C7_Witness ==
    /\ Written("speakers")
    /\ Len(doc.data["speakers"]) = 1
    /\ OriginalList(doc.data["speakers"][1], "achievements") = <<<<>>, <<",">>>>
    /\ SplitOn(CellRead("speakers", 1, "achievements"), "|") = <<<<>>, <<",">>>>

(***************************************************************************)
(* Property of the writer (SpecWriter).                                    *)
(***************************************************************************)
\* the dicts handed to write_csv that lack a field of the field list
Lacking == {i \in 1..Len(extracted[cat]) : ~(Range(FieldsOf(cat)) \subseteq DOMAIN extracted[cat][i])}

\* C3: write_csv never emits a row for a dict that lacks a field of the
\* field list, and whenever it is given such a dict it fails with a
\* SchemaError.
C3_MissingFieldRejected ==
    /\ \A i \in Lacking :
          FileOf(cat) \in touched => Len(files[FileOf(cat)].lines) < i + 1
    /\ (Lacking # {} /\ (pc = "write_close" \/ status # "running")) =>
          /\ status = "failed"
          /\ err.type = "SchemaError"

\* what the code does there: the row is written with '' for every absent
\* field (restval), and write_csv returns normally
C3_AsCoded ==
    (pc = "write_close" /\ cat = "sessionSpeakers") =>
        \A i \in 1..Len(extracted[cat]) : \A j \in 1..Len(FieldsOf(cat)) :
            FieldsOf(cat)[j] \notin DOMAIN extracted[cat][i]
                => ParseCsvLine(files[FileOf(cat)].lines[i + 1])[j] = <<>>

=============================================================================
